---- MODULE Spec2Model ----
(***************************************************************************)
(* GitHubIssue operator: the reconcile loop of GitHubIssueReconciler       *)
(* (controller package) together with the GitHubClient issue-service       *)
(* client it calls.  One reconcile cycle is a sequence of steps, one per   *)
(* blocking call (store read, store write, remote request); the resource   *)
(* store and the remote issue tracker are the shared state.                *)
(***************************************************************************)
EXTENDS Integers, Sequences, FiniteSets, TLC

VARIABLES
    store,    \* resource store: resource name -> stored GitHubIssue object
    remote,   \* the remote tracker's issues of the repository, in list order
    cyc,      \* per resource: the running (or last) reconcile cycle
    active,   \* resource names the dispatcher issues reconcile requests for
    now,      \* logical clock read by metav1.Now()
    budget,   \* remaining moves of the cycle counter and of the environment
    secret,   \* the secret github-token of the credential store
    origin,   \* the store and the tracker as they were initially, where a
              \* property compares a run with them (never read by a step)
    client,   \* the running (or last) operation of the client of package git
              \* and the response bodies it obtained
    webhook   \* the admission logger: its log file and its last response

vars == <<store, remote, cyc, active, now, budget, secret, origin, client, webhook>>

----------------------------------------------------------------------------
(* Bounds of the model *)

MaxCycles == 2

MaxEnv == 1

MaxInitIssues == 2

\* Operations of the client of package git in one run.
MaxCalls == 2

\* Requests the admission logger handles in one run.
MaxHandled == 2

----------------------------------------------------------------------------
(* Values *)

Resources == {"r1", "r2"}

Titles == {"T1", "T2"}

Bodies == {"D1", "D2"}

finalizer == "githubIssue.finalizers.my.domain"

otherFinalizer == "other.finalizers"

open == "open"

closed == "closed"

openIssue == "OpenIssue"

issueExists == "IssueExists"

openIssueMessage == "Issue is open"

issueHasPr == "IssueHasPR"

hasPrLink == "IssueHasAPRLink"

hasPrMessage == "Issue has a PR"

hasNoPr == "IssueHasNoPR"

hasNoPrMessage == "Issue does not have a PR"

ConditionTrue == "True"

ConditionFalse == "False"

\* spec.repo strings, as character sequences
RepoStrings == { <<"o", "/", "r">>, <<"b", "a", "d">> }

\* The zero value of IssueResponse, what decoding a JSON object without the
\* issue's keys (an error body) leaves in the result.
ZeroIssue ==
    [number |-> 0, title |-> "", body |-> "", state |-> "", pr |-> FALSE]

\* A *IssueResponse: <<>> is nil, <<i>> points to i.
NilIssue == <<>>

\* The nil error.
NilErr == [msg |-> "", site |-> "nil"]

\* errors.New / fmt.Errorf: every call allocates a distinct error value; site
\* names the call.
ErrorsNew(msg, site) == [msg |-> msg, site |-> site]

\* errors.Unwrap: the values errors.New makes have no Unwrap method.
ErrorsUnwrap(err) == NilErr

\* errors.Is: a nil err matches only a nil target; otherwise identity or the
\* unwrap chain, which is empty for these values.
ErrorsIs(err, target) ==
    IF err = NilErr \/ target = NilErr THEN err = target ELSE err = target

----------------------------------------------------------------------------
(* Pure functions of the controller and the client *)

RECURSIVE SplitFrom(_, _, _)
\* strings.Split(s, sep) for a one-character sep: the parts after position i,
\* cur being the part read so far.
SplitFrom(s, i, cur) ==
    IF i > Len(s) THEN <<cur>>
    ELSE IF s[i] = "/" THEN <<cur>> \o SplitFrom(s, i + 1, <<>>)
    ELSE SplitFrom(s, i + 1, Append(cur, s[i]))

Split(s) == SplitFrom(s, 1, <<>>)

\* GetOwnerAndRepo indexes repoParts[len-2] and repoParts[len-1]; an index
\* below zero is a runtime panic.
GetOwnerAndRepoPanics(repo) == Len(Split(repo)) - 2 < 0

GetOwnerAndRepo(repo) ==
    LET repoParts == Split(repo)
    IN  [owner |-> repoParts[Len(repoParts) - 1], repo |-> repoParts[Len(repoParts)]]

RECURSIVE FindFrom(_, _, _)
FindFrom(issues, title, i) ==
    IF i > Len(issues) THEN 0
    ELSE IF issues[i].title = title THEN i
    ELSE FindFrom(issues, title, i + 1)

RECURSIVE FindLastFrom(_, _, _)
FindLastFrom(issues, title, i) ==
    IF i < 1 THEN 0
    ELSE IF issues[i].title = title THEN i
    ELSE FindLastFrom(issues, title, i - 1)

\* FindIssue keeping the last match of the scan instead of returning the first.
FindIssueIndex_Last(issues, title) == FindLastFrom(issues, title, Len(issues))

\* FindIssue: index of the first issue with the title, 0 for nil.
FindIssueIndex(issues, title) == FindFrom(issues, title, 1)

\* FindIssue returning the first issue of the list whatever its title.
FindIssue_AnyTitle(issues, title) ==
    IF issues = <<>> THEN NilIssue ELSE <<issues[1]>>

FindIssue(issues, title) ==
    LET i == FindIssueIndex(issues, title)
    IN  IF i = 0 THEN NilIssue ELSE <<issues[i]>>

ContainsFinalizer(obj, f) == f \in obj.finalizers

\* controllerutil.AddFinalizer: the new finalizer set; it reports a change
\* when the finalizer was not there.
AddFinalizer(obj, f) == [obj EXCEPT !.finalizers = @ \cup {f}]

\* controllerutil.RemoveFinalizer leaving the list as it is.
RemoveFinalizer_Keep(obj, f) == obj

RemoveFinalizer(obj, f) == [obj EXCEPT !.finalizers = @ \ {f}]

RECURSIVE FindConditionFrom(_, _, _)
FindConditionFrom(conds, type, i) ==
    IF i > Len(conds) THEN 0
    ELSE IF conds[i].type = type THEN i
    ELSE FindConditionFrom(conds, type, i + 1)

\* meta.SetStatusCondition stamping the transition time at every call.
SetStatusCondition_AlwaysStamp(conds, new) ==
    LET i == FindConditionFrom(conds, new.type, 1)
    IN  IF i = 0 THEN Append(conds, new)
        ELSE [conds EXCEPT ![i] = new]

\* meta.SetStatusCondition: append when the type is new; otherwise replace
\* reason and message, and status with lastTransitionTime only when the
\* status differs.
SetStatusCondition(conds, new) ==
    LET i == FindConditionFrom(conds, new.type, 1)
    IN  IF i = 0 THEN Append(conds, new)
        ELSE [conds EXCEPT ![i] =
                [type    |-> @.type,
                 status  |-> new.status,
                 ltt     |-> IF @.status # new.status THEN new.ltt ELSE @.ltt,
                 reason  |-> new.reason,
                 message |-> new.message]]

\* updateConditions writing the pull-request condition only.
updateConditions_NoOpen(conds, issue, t) ==
    LET hasLink == issue # NilIssue /\ issue[1].pr
    IN  SetStatusCondition(conds,
            [type |-> issueHasPr,
             status |-> IF hasLink THEN ConditionTrue ELSE ConditionFalse,
             ltt |-> t,
             reason |-> IF hasLink THEN hasPrLink ELSE hasNoPr,
             message |-> IF hasLink THEN hasPrMessage ELSE hasNoPrMessage])

\* updateConditions never taking the pull-request branch.
updateConditions_NoLink(conds, issue, t) ==
    SetStatusCondition(
        SetStatusCondition(conds,
            [type |-> openIssue, status |-> ConditionTrue, ltt |-> t,
             reason |-> issueExists, message |-> openIssueMessage]),
        [type |-> issueHasPr, status |-> ConditionFalse, ltt |-> t,
         reason |-> hasNoPr, message |-> hasNoPrMessage])

\* updateConditions(githubIssue, issue): the conditions it leaves in the
\* object, t being metav1.Now().
updateConditions(conds, issue, t) ==
    LET openCondition ==
            [type |-> openIssue, status |-> ConditionTrue, ltt |-> t,
             reason |-> issueExists, message |-> openIssueMessage]
        hasLink == issue # NilIssue /\ issue[1].pr
        prCondition ==
            [type |-> issueHasPr,
             status |-> IF hasLink THEN ConditionTrue ELSE ConditionFalse,
             ltt |-> t,
             reason |-> IF hasLink THEN hasPrLink ELSE hasNoPr,
             message |-> IF hasLink THEN hasPrMessage ELSE hasNoPrMessage]
    IN  SetStatusCondition(SetStatusCondition(conds, openCondition), prCondition)

----------------------------------------------------------------------------
(* The resource store and the remote tracker *)

\* A resource that is not in the store.
Absent ==
    [exists |-> FALSE, repo |-> <<>>, title |-> "", description |-> "",
     deleting |-> FALSE, finalizers |-> {}, conditions |-> <<>>]

\* r.Update(ctx, githubIssue): the object written replaces spec and metadata;
\* the status subresource is not written by it.  An object with a deletion
\* timestamp and no finalizer left is removed by the platform.
StoreAfterUpdate(stored, obj) ==
    IF obj.deleting /\ obj.finalizers = {} THEN Absent
    ELSE [obj EXCEPT !.conditions = stored.conditions]

\* r.Status().Update(ctx, githubIssue): only the status is written.
StoreAfterStatusUpdate(stored, obj) ==
    [stored EXCEPT !.conditions = obj.conditions]

RECURSIVE MaxNumber(_)
MaxNumber(issues) ==
    IF issues = <<>> THEN 0
    ELSE LET m == MaxNumber(Tail(issues))
         IN  IF Head(issues).number > m THEN Head(issues).number ELSE m

\* The issue the tracker makes of an accepted create request.
CreatedIssue(issues, req) ==
    [number |-> MaxNumber(issues) + 1, title |-> req.title, body |-> req.body,
     state |-> req.state, pr |-> FALSE]

\* The tracker after an accepted create request: newest first.
RemoteAfterCreate(issues, req) == <<CreatedIssue(issues, req)>> \o issues

\* The tracker after an accepted request on issues/{number}.
RemoteAfterPost(issues, number, req) ==
    [i \in 1..Len(issues) |->
        IF issues[i].number = number
        THEN [issues[i] EXCEPT !.title = req.title, !.body = req.body,
                               !.state = req.state]
        ELSE issues[i]]

RECURSIVE IssueByNumber(_, _)
IssueByNumber(issues, number) ==
    IF issues = <<>> THEN NilIssue
    ELSE IF Head(issues).number = number THEN <<Head(issues)>>
    ELSE IssueByNumber(Tail(issues), number)

\* Answers of the remote service to one request: "ok" is a success status
\* with the JSON the protocol defines, "status" a non-success status with a
\* JSON error object, "transport" a failed round trip, "decode" a body that
\* is not the expected JSON.
Answers == {"ok", "status", "transport", "decode"}

\* The secret github-token: present with the key token, present without
\* the key, or absent.
SecretStates == {"token", "nokey", "missing"}

----------------------------------------------------------------------------
(* The client: GitHubClient *)

\* InitializeGit: the error it returns for a state of the secret.  It runs
\* when the process builds the reconciler's GitClient, not in Reconcile.
InitializeGitErr(sec) ==
    CASE sec = "missing" ->
            ErrorsNew("unable to read GitHub token secret", "InitializeGit:162")
      [] sec = "nokey" ->
            ErrorsNew("GitHub token not found in secret", "InitializeGit:167")
      [] OTHER -> NilErr

\* CreateIssue leaving State unset.
CreateIssueRequest_NoState(title, body) ==
    [kind |-> "create", number |-> 0, title |-> title, body |-> body, state |-> ""]

\* UpdateIssue with body and title taken for each other.
UpdateIssueRequest_Swapped(number, body, title) ==
    [kind |-> "update", number |-> number, title |-> body, body |-> title, state |-> open]

\* CreateIssue leaving Body unset.
CreateIssueRequest_NoBody(title, body) ==
    [kind |-> "create", number |-> 0, title |-> title, body |-> "", state |-> open]

\* IssueRequest values built by CreateIssue, UpdateIssue and CloseIssue.
CreateIssueRequest(title, body) ==
    [kind |-> "create", number |-> 0, title |-> title, body |-> body, state |-> open]

UpdateIssueRequest(number, body, title) ==
    [kind |-> "update", number |-> number, title |-> title, body |-> body, state |-> open]

\* CloseIssue leaving Body unset.
CloseIssueRequest_NoBody(number, title, description) ==
    [kind |-> "close", number |-> number, title |-> title, body |-> "",
     state |-> closed]

CloseIssueRequest(number, title, description) ==
    [kind |-> "close", number |-> number, title |-> title, body |-> description,
     state |-> closed]

ListRequest ==
    [kind |-> "list", number |-> 0, title |-> "", body |-> "", state |-> ""]

\* GetRepositoryIssues without the check of the status code.
GetRepositoryIssuesErr_IgnoreStatus(answer) ==
    CASE answer = "transport" -> ErrorsNew("transport", "GetRepositoryIssues:192")
      [] answer = "decode" -> ErrorsNew("decode", "GetRepositoryIssues:211")
      [] OTHER -> NilErr

\* GetRepositoryIssues: the error it returns for an answer (NilErr: none).
GetRepositoryIssuesErr(answer) ==
    CASE answer = "transport" -> ErrorsNew("transport", "GetRepositoryIssues:192")
      [] answer = "status" ->
            ErrorsNew("failed to list all github issues with status code", "GetRepositoryIssues:205")
      [] answer = "decode" -> ErrorsNew("decode", "GetRepositoryIssues:211")
      [] OTHER -> NilErr

\* SendRequest with the decoding error dropped.
SendRequestErr_IgnoreDecode(answer) ==
    CASE answer = "transport" -> ErrorsNew("transport", "SendRequest:250")
      [] OTHER -> NilErr

\* SendRequest: the error it returns for an answer.  The status code of the
\* response is not read.
SendRequestErr(answer) ==
    CASE answer = "transport" -> ErrorsNew("transport", "SendRequest:250")
      [] answer = "decode" -> ErrorsNew("decode", "SendRequest:263")
      [] OTHER -> NilErr

\* SendRequest: the decoded result for an answer without error; applied is
\* the issue the tracker answers with on success.
SendRequestResult(answer, applied) ==
    IF answer = "ok" THEN <<applied>> ELSE <<ZeroIssue>>

----------------------------------------------------------------------------
(* One reconcile cycle: GitHubIssueReconciler.Reconcile *)

NoRet == [returned |-> FALSE, err |-> NilErr, requeueAfter |-> 0, panic |-> FALSE]

\* The cycle record before Reconcile has read anything.  obj is githubIssue,
\* the object Reconcile works on, and read the object as r.Get returned it;
\* reqs lists the requests the cycle has sent with the answers they got,
\* writes the store writes that succeeded, ret what Reconcile returned.
\* prevOk tells that the cycle follows, with no move of the environment in
\* between, a cycle of the same resource that returned no error and had all
\* its requests answered with success.  stale tells that the stored object
\* was written by someone else after the cycle read it or last wrote it:
\* githubIssue then carries a resourceVersion that is not the stored one,
\* and the store refuses a write of it.
IdleCycle ==
    [pc |-> "idle", obj |-> Absent, read |-> Absent, issues |-> <<>>,
     found |-> NilIssue,
     handled |-> NilIssue, reqs |-> <<>>, writes |-> <<>>, ret |-> NoRet,
     prevOk |-> FALSE, stale |-> FALSE]

\* The cycle returned no error and all its requests were answered with
\* success.
CleanCycle(c) ==
    /\ c.pc = "done" /\ c.ret.returned /\ c.ret.err = NilErr
    /\ c.read.exists
    /\ \A i \in DOMAIN c.reqs : c.reqs[i].answer = "ok"

\* apierrors NotFound, the answer of r.Get for a name that is not stored.
NotFoundErr == [msg |-> "not found", site |-> "r.Get"]

\* client.IgnoreNotFound keeping the error.
IgnoreNotFound_Keep(err) == err

\* client.IgnoreNotFound
IgnoreNotFound(err) == IF err = NotFoundErr THEN NilErr ELSE err

\* return ctrl.Result{}, err
Return(c, err) ==
    [c EXCEPT !.pc = "done",
              !.ret = [returned |-> TRUE, err |-> err, requeueAfter |-> 0,
                       panic |-> FALSE]]

\* A runtime panic ends the cycle without a return value.
Panic(c) ==
    [c EXCEPT !.pc = "done",
              !.ret = [returned |-> FALSE, err |-> NilErr, requeueAfter |-> 0,
                       panic |-> TRUE]]

Sent(c, req, answer) == [c EXCEPT !.reqs = Append(@, [req |-> req, answer |-> answer])]

\* Reconcile's handling of a non-nil error of CheckDeletion: the two
\* sentinel comparisons, then the error it returns.
CheckDeletionErrReturned(err) ==
    IF \/ ErrorsIs(ErrorsUnwrap(err),
                   ErrorsNew("NamespaceLabel CR deletion has been handled", "Reconcile:81"))
       \/ ErrorsIs(ErrorsUnwrap(err),
                   ErrorsNew("GitHubIssue CR may have been deleted", "Reconcile:82"))
    THEN NilErr
    ELSE err

\* CheckDeletion skipped, and the cycle ended, when the cycle before it on
\* the resource ended without error (a result remembered across cycles).
CheckDeletionBegin_Cached(c) ==
    IF c.prevOk THEN Return(c, NilErr)
    ELSE IF c.obj.deleting
    THEN IF ContainsFinalizer(c.obj, finalizer)
         THEN [c EXCEPT !.pc = "CloseIssue_list"]
         ELSE Return(c, CheckDeletionErrReturned(
                  ErrorsNew("GitHubIssue CR may have been deleted", "CheckDeletion:175")))
    ELSE IF ~ContainsFinalizer(c.obj, finalizer)
         THEN [c EXCEPT !.obj = AddFinalizer(@, finalizer), !.pc = "AddFinalizer_update"]
         ELSE [c EXCEPT !.pc = "GetRepositoryIssues"]

\* CheckDeletion without its deletion branch: a resource with a deletion
\* timestamp is handled as any other.
CheckDeletionBegin_NoDeletionBranch(c) ==
    IF ~ContainsFinalizer(c.obj, finalizer)
    THEN [c EXCEPT !.obj = AddFinalizer(@, finalizer), !.pc = "AddFinalizer_update"]
    ELSE [c EXCEPT !.pc = "GetRepositoryIssues"]

\* CheckDeletion removing the finalizer without calling CloseIssue.
CheckDeletionBegin_SkipClose(c) ==
    IF c.obj.deleting
    THEN IF ContainsFinalizer(c.obj, finalizer)
         THEN [c EXCEPT !.obj = RemoveFinalizer(@, finalizer),
                        !.pc = "RemoveFinalizer_update"]
         ELSE Return(c, CheckDeletionErrReturned(
                  ErrorsNew("GitHubIssue CR may have been deleted", "CheckDeletion:175")))
    ELSE IF ~ContainsFinalizer(c.obj, finalizer)
         THEN [c EXCEPT !.obj = AddFinalizer(@, finalizer), !.pc = "AddFinalizer_update"]
         ELSE [c EXCEPT !.pc = "GetRepositoryIssues"]

\* CheckDeletion up to its first blocking call, for the object read.
CheckDeletionBegin(c) ==
    IF c.obj.deleting
    THEN IF ContainsFinalizer(c.obj, finalizer)
         THEN [c EXCEPT !.pc = "CloseIssue_list"]
         ELSE Return(c, CheckDeletionErrReturned(
                  ErrorsNew("GitHubIssue CR may have been deleted", "CheckDeletion:175")))
    ELSE IF ~ContainsFinalizer(c.obj, finalizer)
         THEN [c EXCEPT !.obj = AddFinalizer(@, finalizer), !.pc = "AddFinalizer_update"]
         ELSE [c EXCEPT !.pc = "GetRepositoryIssues"]

\* Reconcile: r.Get, GetOwnerAndRepo, and CheckDeletion up to its first
\* blocking call.
ReconcileGet(r) ==
    /\ r \in active
    /\ cyc[r].pc \in {"idle", "done"}
    /\ budget.cycles > 0
    /\ \E getOk \in BOOLEAN :
        LET begun  == [IdleCycle EXCEPT !.prevOk = CleanCycle(cyc[r])]
            c      == [begun EXCEPT !.obj = store[r], !.read = store[r]]
            getErr == IF ~getOk THEN ErrorsNew("get failed", "Reconcile:69")
                      ELSE IF ~store[r].exists THEN NotFoundErr
                      ELSE NilErr
        IN  cyc' = [cyc EXCEPT ![r] =
                IF getErr # NilErr
                THEN Return(begun, IgnoreNotFound(getErr))
                ELSE IF GetOwnerAndRepoPanics(c.obj.repo) THEN Panic(c)
                ELSE CheckDeletionBegin(c)]
    /\ budget' = [budget EXCEPT !.cycles = @ - 1]
    /\ now' = now + 1
    /\ UNCHANGED <<store, remote, active, origin, secret, client, webhook>>

\* r.Update after AddFinalizer as a write the store never refuses for the
\* version of the object.
AddFinalizerUpdate_Unconditional(r) ==
    /\ cyc[r].pc = "AddFinalizer_update"
    /\ \E ok \in BOOLEAN :
        IF ok /\ store[r].exists
        THEN /\ store' = [store EXCEPT ![r] = StoreAfterUpdate(@, cyc[r].obj)]
             /\ cyc' = [cyc EXCEPT ![r] =
                    [@ EXCEPT !.pc = "GetRepositoryIssues",
                              !.writes = Append(@, "add_finalizer")]]
        ELSE /\ cyc' = [cyc EXCEPT ![r] =
                    Return(@, CheckDeletionErrReturned(
                        ErrorsNew("update failed", "CheckDeletion:179")))]
             /\ UNCHANGED store
    /\ UNCHANGED <<remote, active, origin, now, budget, secret,
                   client, webhook>>

\* CheckDeletion going on to the issue list when r.Update after AddFinalizer
\* failed (the error of the write dropped).
AddFinalizerUpdate_IgnoreError(r) ==
    /\ cyc[r].pc = "AddFinalizer_update"
    /\ \E ok \in BOOLEAN :
        IF ok /\ store[r].exists /\ ~cyc[r].stale
        THEN /\ store' = [store EXCEPT ![r] = StoreAfterUpdate(@, cyc[r].obj)]
             /\ cyc' = [cyc EXCEPT ![r] =
                    [@ EXCEPT !.pc = "GetRepositoryIssues",
                              !.writes = Append(@, "add_finalizer")]]
        ELSE /\ cyc' = [cyc EXCEPT ![r] = [@ EXCEPT !.pc = "GetRepositoryIssues"]]
             /\ UNCHANGED store
    /\ UNCHANGED <<remote, active, origin, now, budget, secret,
                   client, webhook>>

\* CheckDeletion: r.Update after AddFinalizer.
AddFinalizerUpdate(r) ==
    /\ cyc[r].pc = "AddFinalizer_update"
    /\ \E ok \in BOOLEAN :
        IF ok /\ store[r].exists /\ ~cyc[r].stale
        THEN /\ store' = [store EXCEPT ![r] = StoreAfterUpdate(@, cyc[r].obj)]
             /\ cyc' = [cyc EXCEPT ![r] =
                    [@ EXCEPT !.pc = "GetRepositoryIssues",
                              !.writes = Append(@, "add_finalizer")]]
        ELSE /\ cyc' = [cyc EXCEPT ![r] =
                    Return(@, CheckDeletionErrReturned(
                        ErrorsNew("update failed", "CheckDeletion:179")))]
             /\ UNCHANGED store
    /\ UNCHANGED <<remote, active, origin, now, budget, secret,
                   client, webhook>>

\* CloseIssue: GetRepositoryIssues and FindIssue.
CloseIssueList(r) ==
    /\ cyc[r].pc = "CloseIssue_list"
    /\ \E answer \in Answers :
        LET c     == Sent(cyc[r], ListRequest, answer)
            found == FindIssue(remote, c.obj.title)
        IN  cyc' = [cyc EXCEPT ![r] =
                IF GetRepositoryIssuesErr(answer) # NilErr
                THEN Return(c, CheckDeletionErrReturned(GetRepositoryIssuesErr(answer)))
                ELSE IF found = NilIssue
                THEN Return([c EXCEPT !.issues = remote],
                            CheckDeletionErrReturned(
                                ErrorsNew("issue not found", "CloseIssue:293")))
                ELSE [c EXCEPT !.issues = remote, !.found = found,
                               !.pc = "CloseIssue_send"]]
    /\ UNCHANGED <<store, remote, active, origin, now, budget, secret,
                   client, webhook>>

\* CloseIssue: SendRequest of the close request, then RemoveFinalizer.
CloseIssueSend(r) ==
    /\ cyc[r].pc = "CloseIssue_send"
    /\ \E answer \in Answers :
        LET req == CloseIssueRequest(cyc[r].found[1].number, cyc[r].obj.title,
                                     cyc[r].obj.description)
            c   == Sent(cyc[r], req, answer)
        IN  /\ remote' = IF answer = "ok"
                         THEN RemoteAfterPost(remote, req.number, req)
                         ELSE remote
            /\ cyc' = [cyc EXCEPT ![r] =
                    IF SendRequestErr(answer) # NilErr
                    THEN Return(c, CheckDeletionErrReturned(SendRequestErr(answer)))
                    ELSE [c EXCEPT !.obj = RemoveFinalizer(@, finalizer),
                                   !.pc = "RemoveFinalizer_update"]]
    /\ UNCHANGED <<store, active, origin, now, budget, secret, client, webhook>>

\* CheckDeletion: r.Update after RemoveFinalizer, and its sentinel error.
RemoveFinalizerUpdate(r) ==
    /\ cyc[r].pc = "RemoveFinalizer_update"
    /\ \E ok \in BOOLEAN :
        IF ok /\ store[r].exists /\ ~cyc[r].stale
        THEN /\ store' = [store EXCEPT ![r] = StoreAfterUpdate(@, cyc[r].obj)]
             /\ cyc' = [cyc EXCEPT ![r] =
                    Return([@ EXCEPT !.writes = Append(@, "remove_finalizer")],
                           CheckDeletionErrReturned(
                               ErrorsNew("GitHubIssue CR deletion has been handled",
                                         "CheckDeletion:173")))]
        ELSE /\ cyc' = [cyc EXCEPT ![r] =
                    Return(@, CheckDeletionErrReturned(
                        ErrorsNew("update failed", "CheckDeletion:170")))]
             /\ UNCHANGED store
    /\ UNCHANGED <<remote, active, origin, now, budget, secret,
                   client, webhook>>

\* HandleIssues creating an issue whether or not one was found.
HandleIssuesBranch_AlwaysCreate(found, description) == "CreateIssue"

\* HandleIssues without the update branch.
HandleIssuesBranch_NeverUpdate(found, description) ==
    IF found = NilIssue THEN "CreateIssue" ELSE "none"

\* HandleIssues updating also an issue that is not open.
HandleIssuesBranch_Reopen(found, description) ==
    IF found = NilIssue THEN "CreateIssue"
    ELSE IF found[1].body # description \/ found[1].state # open THEN "UpdateIssue"
    ELSE "none"

\* HandleIssues: the call it makes for the issue found: create when there is
\* none, update when the body differs from the description, else none.
HandleIssuesBranch(found, description) ==
    IF found = NilIssue THEN "CreateIssue"
    ELSE IF found[1].body # description THEN "UpdateIssue"
    ELSE "none"

\* Reconcile: GetRepositoryIssues, FindIssue, and HandleIssues up to its call.
GetRepositoryIssues(r) ==
    /\ cyc[r].pc = "GetRepositoryIssues"
    /\ \E answer \in Answers :
        LET c      == Sent(cyc[r], ListRequest, answer)
            found  == FindIssue(remote, c.obj.title)
            branch == HandleIssuesBranch(found, c.obj.description)
        IN  cyc' = [cyc EXCEPT ![r] =
                IF GetRepositoryIssuesErr(answer) # NilErr
                THEN Return(c, GetRepositoryIssuesErr(answer))
                ELSE [c EXCEPT !.issues = remote, !.found = found,
                               !.handled = NilIssue,
                               !.pc = IF branch = "none" THEN "StatusUpdate" ELSE branch]]
    /\ UNCHANGED <<store, remote, active, origin, now, budget, secret,
                   client, webhook>>

\* CreateIssue putting the new issue in front of the issues the cycle
\* listed, and storing that list as the tracker (a list shared and written
\* back instead of a request the tracker applies).
CreateIssue_WriteBack(r) ==
    /\ cyc[r].pc = "CreateIssue"
    /\ \E answer \in Answers :
        LET req == CreateIssueRequest(cyc[r].obj.title, cyc[r].obj.description)
            c   == Sent(cyc[r], req, answer)
        IN  /\ remote' = IF answer = "ok" THEN RemoteAfterCreate(cyc[r].issues, req)
                          ELSE remote
            /\ cyc' = [cyc EXCEPT ![r] =
                    IF SendRequestErr(answer) # NilErr
                    THEN Return(c, SendRequestErr(answer))
                    ELSE [c EXCEPT !.handled =
                                       SendRequestResult(answer, CreatedIssue(remote, req)),
                                   !.pc = "StatusUpdate"]]
    /\ UNCHANGED <<store, active, origin, now, budget, secret, client, webhook>>

\* HandleIssues: gitClient.CreateIssue.
CreateIssue(r) ==
    /\ cyc[r].pc = "CreateIssue"
    /\ \E answer \in Answers :
        LET req == CreateIssueRequest(cyc[r].obj.title, cyc[r].obj.description)
            c   == Sent(cyc[r], req, answer)
        IN  /\ remote' = IF answer = "ok" THEN RemoteAfterCreate(remote, req) ELSE remote
            /\ cyc' = [cyc EXCEPT ![r] =
                    IF SendRequestErr(answer) # NilErr
                    THEN Return(c, SendRequestErr(answer))
                    ELSE [c EXCEPT !.handled =
                                       SendRequestResult(answer, CreatedIssue(remote, req)),
                                   !.pc = "StatusUpdate"]]
    /\ UNCHANGED <<store, active, origin, now, budget, secret, client, webhook>>

\* HandleIssues: gitClient.UpdateIssue.
UpdateIssue(r) ==
    /\ cyc[r].pc = "UpdateIssue"
    /\ \E answer \in Answers :
        LET req == UpdateIssueRequest(cyc[r].found[1].number, cyc[r].obj.description,
                                      cyc[r].obj.title)
            c   == Sent(cyc[r], req, answer)
            new == IF answer = "ok" THEN RemoteAfterPost(remote, req.number, req)
                   ELSE remote
        IN  /\ remote' = new
            /\ cyc' = [cyc EXCEPT ![r] =
                    IF SendRequestErr(answer) # NilErr
                    THEN Return(c, SendRequestErr(answer))
                    ELSE [c EXCEPT !.handled =
                                       SendRequestResult(answer,
                                           IssueByNumber(new, req.number)[1]),
                                   !.pc = "StatusUpdate"]]
    /\ UNCHANGED <<store, active, origin, now, budget, secret, client, webhook>>

\* Reconcile returning an error after a status write that went through.
StatusUpdate_WriteThenFail(r) ==
    /\ cyc[r].pc = "StatusUpdate"
    /\ \E ok \in BOOLEAN :
        LET obj == [cyc[r].obj EXCEPT !.conditions =
                        updateConditions(@, cyc[r].handled, now)]
        IN  /\ store' = [store EXCEPT ![r] =
                    IF store[r].exists THEN StoreAfterStatusUpdate(@, obj) ELSE @]
            /\ cyc' = [cyc EXCEPT ![r] =
                    IF ok /\ store[r].exists /\ ~cyc[r].stale
                    THEN Return([@ EXCEPT !.obj = obj, !.writes = Append(@, "status")],
                                NilErr)
                    ELSE Return([@ EXCEPT !.obj = obj],
                                ErrorsNew("status update failed", "Reconcile:104"))]
    /\ UNCHANGED <<remote, active, origin, now, budget, secret,
                   client, webhook>>

\* Reconcile: updateConditions, r.Status().Update and the final return.
StatusUpdate(r) ==
    /\ cyc[r].pc = "StatusUpdate"
    /\ \E ok \in BOOLEAN :
        LET obj == [cyc[r].obj EXCEPT !.conditions =
                        updateConditions(@, cyc[r].handled, now)]
        IN  IF ok /\ store[r].exists /\ ~cyc[r].stale
            THEN /\ store' = [store EXCEPT ![r] = StoreAfterStatusUpdate(@, obj)]
                 /\ cyc' = [cyc EXCEPT ![r] =
                        Return([@ EXCEPT !.obj = obj, !.writes = Append(@, "status")],
                               NilErr)]
            ELSE /\ cyc' = [cyc EXCEPT ![r] =
                        Return([@ EXCEPT !.obj = obj],
                               ErrorsNew("status update failed", "Reconcile:104"))]
                 /\ UNCHANGED store
    /\ UNCHANGED <<remote, active, origin, now, budget, secret,
                   client, webhook>>

----------------------------------------------------------------------------
(* Reconcile as a function: what one uninterrupted call of Reconcile makes  *)
(* of the stored object, the tracker, the answers it gets and the clock.    *)
(* ch.getOk tells whether r.Get succeeds, ch.answers lists the answers to   *)
(* the requests in the order they are sent, ch.failSite names the store     *)
(* write that fails ("" for none).                                          *)

Ans(ch, i) == IF i \in DOMAIN ch.answers THEN ch.answers[i] ELSE "ok"

RetErr(err) == [returned |-> TRUE, err |-> err, requeueAfter |-> 0, panic |-> FALSE]

RetPanic == [returned |-> FALSE, err |-> NilErr, requeueAfter |-> 0, panic |-> TRUE]

\* GitHubClient.CloseIssue
CloseIssueFn(obj, rem, ch) ==
    LET a1    == Ans(ch, 1)
        r1    == <<[req |-> ListRequest, answer |-> a1]>>
        found == FindIssue(rem, obj.title)
    IN  IF GetRepositoryIssuesErr(a1) # NilErr
        THEN [remote |-> rem, reqs |-> r1, err |-> GetRepositoryIssuesErr(a1)]
        ELSE IF found = NilIssue
        THEN [remote |-> rem, reqs |-> r1,
              err |-> ErrorsNew("issue not found", "CloseIssue:293")]
        ELSE LET a2  == Ans(ch, 2)
                 req == CloseIssueRequest(found[1].number, obj.title, obj.description)
             IN  [remote |-> IF a2 = "ok" THEN RemoteAfterPost(rem, req.number, req)
                             ELSE rem,
                  reqs |-> Append(r1, [req |-> req, answer |-> a2]),
                  err |-> SendRequestErr(a2)]

\* CheckDeletion
CheckDeletionFn(stored, rem, ch) ==
    IF stored.deleting
    THEN IF ContainsFinalizer(stored, finalizer)
         THEN LET cl == CloseIssueFn(stored, rem, ch)
              IN  IF cl.err # NilErr
                  THEN [stored |-> stored, remote |-> cl.remote, reqs |-> cl.reqs,
                        err |-> cl.err]
                  ELSE IF ch.failSite = "CheckDeletion:170"
                  THEN [stored |-> stored, remote |-> cl.remote, reqs |-> cl.reqs,
                        err |-> ErrorsNew("update failed", "CheckDeletion:170")]
                  ELSE [stored |-> StoreAfterUpdate(stored,
                                       RemoveFinalizer(stored, finalizer)),
                        remote |-> cl.remote, reqs |-> cl.reqs,
                        err |-> ErrorsNew("GitHubIssue CR deletion has been handled",
                                          "CheckDeletion:173")]
         ELSE [stored |-> stored, remote |-> rem, reqs |-> <<>>,
               err |-> ErrorsNew("GitHubIssue CR may have been deleted",
                                 "CheckDeletion:175")]
    ELSE IF ~ContainsFinalizer(stored, finalizer)
         THEN IF ch.failSite = "CheckDeletion:179"
              THEN [stored |-> stored, remote |-> rem, reqs |-> <<>>,
                    err |-> ErrorsNew("update failed", "CheckDeletion:179")]
              ELSE [stored |-> StoreAfterUpdate(stored, AddFinalizer(stored, finalizer)),
                    remote |-> rem, reqs |-> <<>>, err |-> NilErr]
         ELSE [stored |-> stored, remote |-> rem, reqs |-> <<>>, err |-> NilErr]

\* HandleIssues: the issue it returns, the tracker after it, its request.
HandleIssuesFn(found, obj, rem, ch) ==
    LET branch == HandleIssuesBranch(found, obj.description)
        a2     == Ans(ch, 2)
    IN  IF branch = "CreateIssue"
        THEN LET req == CreateIssueRequest(obj.title, obj.description)
             IN  [remote |-> IF a2 = "ok" THEN RemoteAfterCreate(rem, req) ELSE rem,
                  reqs |-> <<[req |-> req, answer |-> a2]>>,
                  err |-> SendRequestErr(a2),
                  handled |-> SendRequestResult(a2, CreatedIssue(rem, req))]
        ELSE IF branch = "UpdateIssue"
        THEN LET req == UpdateIssueRequest(found[1].number, obj.description, obj.title)
                 new == IF a2 = "ok" THEN RemoteAfterPost(rem, req.number, req) ELSE rem
             IN  [remote |-> new,
                  reqs |-> <<[req |-> req, answer |-> a2]>>,
                  err |-> SendRequestErr(a2),
                  handled |-> SendRequestResult(a2, IssueByNumber(new, req.number)[1])]
        ELSE [remote |-> rem, reqs |-> <<>>, err |-> NilErr, handled |-> NilIssue]

\* Reconcile
ReconcileFn(stored, rem, ch, t) ==
    IF ~ch.getOk
    THEN [stored |-> stored, remote |-> rem, reqs |-> <<>>,
          ret |-> RetErr(ErrorsNew("get failed", "Reconcile:69"))]
    ELSE IF ~stored.exists
    THEN [stored |-> stored, remote |-> rem, reqs |-> <<>>,
          ret |-> RetErr(IgnoreNotFound(NotFoundErr))]
    ELSE IF GetOwnerAndRepoPanics(stored.repo)
    THEN [stored |-> stored, remote |-> rem, reqs |-> <<>>, ret |-> RetPanic]
    ELSE
    LET cd == CheckDeletionFn(stored, rem, ch)
        a1 == Ans(ch, 1)
        r1 == <<[req |-> ListRequest, answer |-> a1]>>
    IN  IF cd.err # NilErr
        THEN [stored |-> cd.stored, remote |-> cd.remote, reqs |-> cd.reqs,
              ret |-> RetErr(CheckDeletionErrReturned(cd.err))]
        ELSE IF GetRepositoryIssuesErr(a1) # NilErr
        THEN [stored |-> cd.stored, remote |-> rem, reqs |-> r1,
              ret |-> RetErr(GetRepositoryIssuesErr(a1))]
        ELSE
        LET h     == HandleIssuesFn(FindIssue(rem, stored.title), stored, rem, ch)
            conds == updateConditions(stored.conditions, h.handled, t)
        IN  IF h.err # NilErr
            THEN [stored |-> cd.stored, remote |-> h.remote, reqs |-> r1 \o h.reqs,
                  ret |-> RetErr(h.err)]
            ELSE IF ch.failSite = "Reconcile:104"
            THEN [stored |-> cd.stored, remote |-> h.remote, reqs |-> r1 \o h.reqs,
                  ret |-> RetErr(ErrorsNew("status update failed", "Reconcile:104"))]
            ELSE [stored |-> StoreAfterStatusUpdate(cd.stored,
                                 [stored EXCEPT !.conditions = conds]),
                  remote |-> h.remote, reqs |-> r1 \o h.reqs,
                  ret |-> RetErr(NilErr)]

----------------------------------------------------------------------------
(* The environment: users of the store and other actors on the tracker.    *)
(* It moves only between the cycles of the resources; a cycle record is    *)
(* kept until then, so that pc = "done" is the state a cycle has left.     *)

Quiescent == \A r \in Resources : cyc[r].pc \in {"idle", "done"}

Forgotten == [r \in Resources |-> IdleCycle]

\* A delete request: the platform sets the deletion timestamp, and removes
\* the object at once when it carries no finalizer.
UserDelete(r) ==
    /\ Quiescent
    /\ budget.env > 0
    /\ store[r].exists /\ ~store[r].deleting
    /\ store' = [store EXCEPT ![r] =
            IF @.finalizers = {} THEN Absent ELSE [@ EXCEPT !.deleting = TRUE]]
    /\ budget' = [budget EXCEPT !.env = @ - 1]
    /\ cyc' = Forgotten
    /\ UNCHANGED <<remote, active, origin, now, secret, client, webhook>>

\* A user edits the title or else the description of the spec.
UserEditSpec(r) ==
    /\ Quiescent
    /\ budget.env > 0
    /\ store[r].exists
    /\ \E t \in Titles, d \in Bodies :
        /\ (t = store[r].title) # (d = store[r].description)
        /\ store' = [store EXCEPT ![r] = [@ EXCEPT !.title = t, !.description = d]]
    /\ budget' = [budget EXCEPT !.env = @ - 1]
    /\ cyc' = Forgotten
    /\ UNCHANGED <<remote, active, origin, now, secret, client, webhook>>

\* A user edits the title or else the description of the spec while a
\* cycle of the resource is between two of its calls.
UserEditSpecDuring(r) ==
    /\ cyc[r].pc \notin {"idle", "done"}
    /\ budget.env > 0
    /\ store[r].exists
    /\ \E t \in Titles, d \in Bodies :
        /\ (t = store[r].title) # (d = store[r].description)
        /\ store' = [store EXCEPT ![r] = [@ EXCEPT !.title = t, !.description = d]]
    /\ budget' = [budget EXCEPT !.env = @ - 1]
    /\ cyc' = [cyc EXCEPT ![r] = [@ EXCEPT !.stale = TRUE]]
    /\ UNCHANGED <<remote, active, origin, now, secret, client, webhook>>

\* Another actor edits the body of an issue, or closes or reopens it.  The
\* issues it touches are those the engine addresses: the first one with the
\* title of a stored resource.
ExternalEdit ==
    /\ Quiescent
    /\ budget.env > 0
    /\ \E r \in active, b \in Bodies, st \in {open, closed} :
        LET i == FindIssueIndex(remote, store[r].title)
        IN  /\ store[r].exists
            /\ i # 0
            /\ (b = remote[i].body) # (st = remote[i].state)
            /\ remote' = [remote EXCEPT ![i] = [@ EXCEPT !.body = b, !.state = st]]
    /\ budget' = [budget EXCEPT !.env = @ - 1]
    /\ cyc' = Forgotten
    /\ UNCHANGED <<store, active, origin, now, secret, client, webhook>>

\* The secret is deleted, loses its key, or is made anew.
SecretEdit ==
    /\ Quiescent
    /\ budget.env > 0
    /\ \E sec \in SecretStates \ {secret} : secret' = sec
    /\ budget' = [budget EXCEPT !.env = @ - 1]
    /\ cyc' = Forgotten
    /\ UNCHANGED <<store, remote, active, origin, now, client, webhook>>

\* The number of issues of the tracker with the title.
CountTitle(issues, title) ==
    Cardinality({ i \in DOMAIN issues : issues[i].title = title })

----------------------------------------------------------------------------
(* Initial states and the specification *)

\* Issues of an initial tracker.  Those with the title "T2" stand for issues
\* of other owners and come in one shape; a linked pull request is on open
\* issues only (ExternalEdit closes them later).
InitIssueShapes ==
    { [title |-> t, body |-> b, state |-> st, pr |-> p] :
        t \in Titles, b \in Bodies, st \in {open, closed}, p \in BOOLEAN }

InitShapes ==
    { s \in InitIssueShapes :
        /\ s.title = "T2" => (s.body = "D1" /\ s.state = open /\ ~s.pr)
        /\ s.pr => s.state = open }

RECURSIVE SeqsUpTo(_, _)
SeqsUpTo(S, n) ==
    IF n = 0 THEN { <<>> }
    ELSE LET shorter == SeqsUpTo(S, n - 1)
         IN  shorter \cup { Append(q, x) : q \in { p \in shorter : Len(p) = n - 1 }, x \in S }

\* The tracker lists newest first: position i of n issues holds number n+1-i.
Numbered(shapes) ==
    [i \in 1..Len(shapes) |->
        [number |-> Len(shapes) + 1 - i, title |-> shapes[i].title,
         body |-> shapes[i].body, state |-> shapes[i].state, pr |-> shapes[i].pr]]

InitRemotes == { Numbered(q) : q \in SeqsUpTo(InitShapes, MaxInitIssues) }

\* A stored resource before any cycle of this process: any spec.repo, no
\* status, any finalizers; a deletion timestamp only with a finalizer.
InitObjects ==
    { o \in [exists : {TRUE}, repo : RepoStrings, title : {"T1"},
             description : {"D1"}, deleting : BOOLEAN,
             finalizers : SUBSET {finalizer, otherFinalizer},
             conditions : {<<>>}] :
        o.deleting => o.finalizers # {} }

\* The client of package git before its first operation.
IdleClient ==
    [variant |-> "", op |-> "", stage |-> "", pc |-> "idle", answer |-> "",
     bodies |-> <<>>, outcome |-> "", calls |-> 0]

\* The admission logger before its first request, the log file empty.
IdleWebhook ==
    [log |-> <<>>, before |-> <<>>, request |-> <<>>, response |-> <<>>,
     handled |-> 0]

\* No initial state is remembered.
NoOrigin == [store |-> [r \in Resources |-> Absent], remote |-> <<>>]

Init ==
    /\ active = {"r1"}
    /\ \E o \in InitObjects : store = [r \in Resources |-> IF r = "r1" THEN o ELSE Absent]
    /\ remote \in InitRemotes
    /\ cyc = [r \in Resources |-> IdleCycle]
    /\ now = 1
    /\ budget = [cycles |-> MaxCycles, env |-> MaxEnv]
    /\ secret \in { sec \in SecretStates : InitializeGitErr(sec) = NilErr }
    /\ origin = NoOrigin
    /\ client = IdleClient
    /\ webhook = IdleWebhook

Next ==
    \/ \E r \in Resources : ReconcileGet(r)
    \/ \E r \in Resources : AddFinalizerUpdate(r)
    \/ \E r \in Resources : CloseIssueList(r)
    \/ \E r \in Resources : CloseIssueSend(r)
    \/ \E r \in Resources : RemoveFinalizerUpdate(r)
    \/ \E r \in Resources : GetRepositoryIssues(r)
    \/ \E r \in Resources : CreateIssue(r)
    \/ \E r \in Resources : UpdateIssue(r)
    \/ \E r \in Resources : StatusUpdate(r)
    \/ \E r \in Resources : UserDelete(r)
    \/ \E r \in Resources : UserEditSpec(r)
    \/ ExternalEdit
    \/ SecretEdit

Spec == Init /\ [][Next]_vars

\* A step of a reconcile cycle.  The watch that SetupWithManager registers
\* hands the stored resources to Reconcile again at every resync of the
\* manager's cache, the dispatcher runs every request it holds, and the
\* calls of Reconcile return: a cycle that can step does.
CycleStep ==
    \E r \in Resources :
        \/ ReconcileGet(r)
        \/ AddFinalizerUpdate(r)
        \/ CloseIssueList(r)
        \/ CloseIssueSend(r)
        \/ RemoveFinalizerUpdate(r)
        \/ GetRepositoryIssues(r)
        \/ CreateIssue(r)
        \/ UpdateIssue(r)
        \/ StatusUpdate(r)

LiveSpec == Init /\ [][Next]_vars /\ WF_vars(CycleStep)

\* Cycles with a user who edits the spec between two calls of a cycle.
RaceNext ==
    \/ \E r \in Resources : ReconcileGet(r)
    \/ \E r \in Resources : AddFinalizerUpdate(r)
    \/ \E r \in Resources : CloseIssueList(r)
    \/ \E r \in Resources : CloseIssueSend(r)
    \/ \E r \in Resources : RemoveFinalizerUpdate(r)
    \/ \E r \in Resources : GetRepositoryIssues(r)
    \/ \E r \in Resources : CreateIssue(r)
    \/ \E r \in Resources : UpdateIssue(r)
    \/ \E r \in Resources : StatusUpdate(r)
    \/ \E r \in Resources : UserEditSpecDuring(r)

RaceSpec == Init /\ [][RaceNext]_vars

\* Two resources of one repository, with different titles or the same, both
\* handed to Reconcile, the tracker and the store remembered as they are.
ConcObjects(title) ==
    { o \in [exists : {TRUE}, repo : {<<"o", "/", "r">>}, title : {title},
             description : {"D1"}, deleting : BOOLEAN,
             finalizers : SUBSET {finalizer}, conditions : {<<>>}] :
        o.deleting => o.finalizers # {} }

ConcInit ==
    /\ active = Resources
    /\ \E o1 \in ConcObjects("T1"), o2 \in ConcObjects("T1") \cup ConcObjects("T2") :
            store = [r \in Resources |-> IF r = "r1" THEN o1 ELSE o2]
    /\ remote \in InitRemotes
    /\ cyc = [r \in Resources |-> IdleCycle]
    /\ now = 1
    /\ budget = [cycles |-> Cardinality(Resources), env |-> 0]
    /\ secret = "token"
    /\ origin = [store |-> store, remote |-> remote]
    /\ client = IdleClient
    /\ webhook = IdleWebhook

\* The one call of Reconcile for the resource.
ReconcileOnce(r) == cyc[r].pc = "idle" /\ ReconcileGet(r)

\* The workers of the dispatcher run the two calls in parallel: the steps
\* of the two cycles interleave in every way.
ConcNext ==
    \/ \E r \in Resources : ReconcileOnce(r)
    \/ \E r \in Resources : AddFinalizerUpdate(r)
    \/ \E r \in Resources : CloseIssueList(r)
    \/ \E r \in Resources : CloseIssueSend(r)
    \/ \E r \in Resources : RemoveFinalizerUpdate(r)
    \/ \E r \in Resources : GetRepositoryIssues(r)
    \/ \E r \in Resources : CreateIssue(r)
    \/ \E r \in Resources : UpdateIssue(r)
    \/ \E r \in Resources : StatusUpdate(r)

ConcSpec == ConcInit /\ [][ConcNext]_vars

\* The life of one resource from before the engine has created anything for
\* it: the tracker holds no issue with its title (only issues of others),
\* and the tracker and the store are remembered as they are.  The user may
\* edit the spec and delete the resource: one move more than in Init.
LifeInit ==
    /\ active = {"r1"}
    /\ \E o \in ConcObjects("T1") :
            /\ ~o.deleting
            /\ store = [r \in Resources |-> IF r = "r1" THEN o ELSE Absent]
    /\ remote \in { q \in InitRemotes : CountTitle(q, "T1") = 0 }
    /\ cyc = [r \in Resources |-> IdleCycle]
    /\ now = 1
    /\ budget = [cycles |-> MaxCycles, env |-> MaxEnv + 1]
    /\ secret = "token"
    /\ origin = [store |-> store, remote |-> remote]
    /\ client = IdleClient
    /\ webhook = IdleWebhook

\* The cycles of the resource and the moves of its user; no one else acts
\* on the tracker.
LifeNext ==
    \/ \E r \in Resources : ReconcileGet(r)
    \/ \E r \in Resources : AddFinalizerUpdate(r)
    \/ \E r \in Resources : CloseIssueList(r)
    \/ \E r \in Resources : CloseIssueSend(r)
    \/ \E r \in Resources : RemoveFinalizerUpdate(r)
    \/ \E r \in Resources : GetRepositoryIssues(r)
    \/ \E r \in Resources : CreateIssue(r)
    \/ \E r \in Resources : UpdateIssue(r)
    \/ \E r \in Resources : StatusUpdate(r)
    \/ \E r \in Resources : UserDelete(r)
    \/ \E r \in Resources : UserEditSpec(r)

LifeSpec == LifeInit /\ [][LifeNext]_vars

----------------------------------------------------------------------------
(* The client of package git (internal/clients/git) over HttpClient        *)
(* (internal/clients/http): its operations and the response bodies.        *)

engineVars == <<store, remote, cyc, active, now, budget, secret, origin>>

\* No resource, no cycle: the engine is not part of the run.
NoEngine ==
    /\ store = [r \in Resources |-> Absent]
    /\ remote = <<>>
    /\ cyc = [r \in Resources |-> IdleCycle]
    /\ active = {}
    /\ now = 1
    /\ budget = [cycles |-> 0, env |-> 0]
    /\ secret = "token"
    /\ origin = NoOrigin

ClientOps == {"GetRepositoryIssues", "CreateIssue", "UpdateIssue", "CloseIssue"}

\* The two HttpClient.SendRequest of the sources: "logger" takes a logger
\* and defers response.Body.Close(), "plain" returns the response as it is.
HttpVariants == {"logger", "plain"}

\* HttpClient.SendRequest: the body of the response it returns, none when
\* the round trip failed.  The deferred Close of the variant with a logger
\* runs when SendRequest returns.
SendRequestBody(variant, answer) ==
    IF answer = "transport" THEN <<>>
    ELSE <<[state |-> IF variant = "logger" THEN "closed" ELSE "open",
            read |-> FALSE, readClosed |-> FALSE]>>

\* json.NewDecoder(response.Body).Decode: a read of the body, which fails on
\* a body that is closed.
DecodeBody(b) ==
    IF b.state = "closed" THEN [b EXCEPT !.readClosed = TRUE]
    ELSE [b EXCEPT !.read = TRUE]

DecodeFails(b, answer) == b.state = "closed" \/ answer = "decode"

\* The operation has ended with the outcome.
ClientDone(c, outcome) == [c EXCEPT !.pc = "done", !.outcome = outcome]

\* A caller starts an operation of the client.
ClientCall(op) ==
    /\ client.pc \in {"idle", "done"}
    /\ client.calls < MaxCalls
    /\ client' = [client EXCEPT
            !.op = op,
            !.stage = IF op \in {"GetRepositoryIssues", "CloseIssue"} THEN "list"
                      ELSE "post",
            !.pc = "SendRequest", !.answer = "", !.bodies = <<>>,
            !.outcome = "", !.calls = @ + 1]
    /\ UNCHANGED <<engineVars, webhook>>

\* r.HttpClient.SendRequest and what the operation does with its error:
\* GetRepositoryIssues returns it, CreateIssue logs response.StatusCode of
\* the nil response, UpdateIssue and CloseIssue drop it and go on to
\* response.Body of the nil response.
ClientSendRequest ==
    /\ client.pc = "SendRequest"
    /\ \E answer \in Answers :
        LET c == [client EXCEPT
                    !.answer = answer,
                    !.bodies = @ \o SendRequestBody(client.variant, answer)]
        IN  client' =
                IF answer = "transport"
                THEN IF c.stage = "list" THEN ClientDone(c, "err")
                     ELSE ClientDone(c, "panic")
                ELSE [c EXCEPT !.pc = IF c.stage = "list" THEN "CheckStatus"
                                      ELSE "Decode"]
    /\ UNCHANGED <<engineVars, webhook>>

\* GetRepositoryIssues: response.StatusCode != http.StatusOK.
ClientCheckStatus ==
    /\ client.pc = "CheckStatus"
    /\ client' = IF client.answer = "status" THEN ClientDone(client, "err")
                  ELSE [client EXCEPT !.pc = "Decode"]
    /\ UNCHANGED <<engineVars, webhook>>

\* json.NewDecoder(response.Body).Decode and the return of the operation;
\* CloseIssue goes on to FindIssue after its listing.
ClientDecode ==
    /\ client.pc = "Decode"
    /\ LET n == Len(client.bodies)
            c == [client EXCEPT !.bodies[n] = DecodeBody(@)]
        IN  client' =
                IF DecodeFails(client.bodies[n], client.answer)
                THEN ClientDone(c, "err")
                ELSE IF c.op = "CloseIssue" /\ c.stage = "list"
                THEN [c EXCEPT !.pc = "FindIssue"]
                ELSE ClientDone(c, "ok")
    /\ UNCHANGED <<engineVars, webhook>>

\* CloseIssue: FindIssue, "issue not found" or the close request.
ClientFindIssue ==
    /\ client.pc = "FindIssue"
    /\ \E found \in BOOLEAN :
        client' = IF found
                  THEN [client EXCEPT !.stage = "post", !.pc = "SendRequest",
                                      !.answer = ""]
                  ELSE ClientDone(client, "err")
    /\ UNCHANGED <<engineVars, webhook>>

ClientInit ==
    /\ NoEngine
    /\ \E v \in HttpVariants : client = [IdleClient EXCEPT !.variant = v]
    /\ webhook = IdleWebhook

ClientNext ==
    \/ \E op \in ClientOps : ClientCall(op)
    \/ ClientSendRequest
    \/ ClientCheckStatus
    \/ ClientDecode
    \/ ClientFindIssue

ClientSpec == ClientInit /\ [][ClientNext]_vars

----------------------------------------------------------------------------
(* The admission logger: NamespaceValidator (package webhook).             *)

Users == {"alice", "bob"}

\* The operations on a namespace the webhook is called for.
Operations == {"CREATE", "UPDATE", "DELETE"}

\* What the file system answers: the file opens and the write succeeds, the
\* file cannot be opened, or it opens and the write fails.
FileAnswers == {"ok", "open_failed", "write_failed"}

\* json.Marshal(&LogInfo{User, Operation}): one line of the log.
Marshal(user, operation) == [user |-> user, operation |-> operation]

\* admission.Allowed
Allowed(message) == [allowed |-> TRUE, code |-> 200, message |-> message]

\* admission.Errored
Errored(code) == [allowed |-> FALSE, code |-> code, message |-> "error"]

\* NamespaceValidator.handle: the log file and the response after it.
handle(log, request, file) ==
    IF file = "open_failed" THEN [log |-> log, response |-> Errored(500)]
    ELSE IF file = "write_failed" THEN [log |-> log, response |-> Errored(500)]
    ELSE [log |-> Append(log, Marshal(request.user, request.operation)),
          response |-> Allowed("Username written o")]

\* NamespaceValidator.Handle: Decode of the namespace, then handle.
Handle ==
    /\ webhook.handled < MaxHandled
    /\ \E user \in Users, operation \in Operations, decoded \in BOOLEAN,
          file \in FileAnswers :
        LET request == [user |-> user, operation |-> operation, decoded |-> decoded]
            after   == IF decoded THEN handle(webhook.log, request, file)
                       ELSE [log |-> webhook.log, response |-> Errored(400)]
        IN  webhook' = [log |-> after.log, before |-> webhook.log,
                        request |-> <<request>>, response |-> <<after.response>>,
                        handled |-> webhook.handled + 1]
    /\ UNCHANGED <<engineVars, client>>

WebhookInit ==
    /\ NoEngine
    /\ client = IdleClient
    /\ webhook = IdleWebhook

WebhookNext == Handle

WebhookSpec == WebhookInit /\ [][WebhookNext]_vars

----------------------------------------------------------------------------
(* Vocabulary of the properties: what a cycle record shows of its cycle *)

Range(q) == { q[i] : i \in DOMAIN q }

\* Index of the first issue of the list with the title, 0 when there is none.
FirstWithTitle(issues, title) ==
    IF \E i \in DOMAIN issues : issues[i].title = title
    THEN CHOOSE i \in DOMAIN issues :
            /\ issues[i].title = title
            /\ \A j \in 1..(i - 1) : issues[j].title # title
    ELSE 0

ReqsOfKind(c, kind) == { i \in DOMAIN c.reqs : c.reqs[i].req.kind = kind }

\* The cycle has ended, and not by a runtime panic.
Ended(c) == c.pc = "done" /\ ~c.ret.panic

\* The cycle read a resource with a deletion timestamp and the finalizer.
DeletionCycle(c) ==
    c.read.exists /\ c.read.deleting /\ finalizer \in c.read.finalizers

\* The cycle read a resource without a deletion timestamp.
SyncCycle(c) == c.read.exists /\ ~c.read.deleting

\* The listing of the cycle was answered with success.
Listed(c) == \E i \in ReqsOfKind(c, "list") : c.reqs[i].answer = "ok"

\* CloseIssue returned nil: the listing succeeded and SendRequest decoded an
\* answer to the close request.
CloseReturnedSuccess(c) ==
    \E i, j \in DOMAIN c.reqs :
        /\ i < j
        /\ c.reqs[i].req.kind = "list" /\ c.reqs[i].answer = "ok"
        /\ c.reqs[j].req.kind = "close" /\ c.reqs[j].answer \in {"ok", "status"}

\* CloseIssue returned an error: the listing failed, no listed issue has the
\* title, or the close request's round trip or decoding failed.
CloseIssueFailed(c) ==
    \/ \E i \in ReqsOfKind(c, "list") : c.reqs[i].answer # "ok"
    \/ Listed(c) /\ FirstWithTitle(c.issues, c.read.title) = 0
    \/ \E j \in ReqsOfKind(c, "close") : c.reqs[j].answer \in {"transport", "decode"}

FinalizerStored(r) == store[r].exists /\ finalizer \in store[r].finalizers

\* The status of the stored condition of a type, "" when there is none.
StoredStatus(r, type) ==
    LET i == FindConditionFrom(store[r].conditions, type, 1)
    IN  IF i = 0 THEN "" ELSE store[r].conditions[i].status

----------------------------------------------------------------------------
(* Properties *)

\* C1: deletion guarantee.  When a cycle on a resource with a deletion
\* timestamp and the finalizer has persisted the removal of the finalizer,
\* the first remote issue with the resource's title is closed, whatever the
\* remote service answered to the close request.
C1_DeletionGuarantee ==
    \A r \in Resources :
        LET c == cyc[r]
            i == FirstWithTitle(remote, c.read.title)
        IN  (Ended(c) /\ DeletionCycle(c) /\ "remove_finalizer" \in Range(c.writes))
                => (i # 0 /\ remote[i].state = closed)

\* C2: the finalizer leaves the stored resource only in a cycle that read a
\* deletion timestamp and in which CloseIssue returned success before.
C2_FinalizerRemovedOnlyAfterClose ==
    \A r \in Resources :
        LET c == cyc[r]
        IN  (c.pc # "idle" /\ c.read.exists /\ finalizer \in c.read.finalizers
                /\ ~FinalizerStored(r))
                => (c.read.deleting /\ CloseReturnedSuccess(c))

C2_Witness ==
    \E r \in Resources :
        /\ cyc[r].pc = "done" /\ DeletionCycle(cyc[r])
        /\ "remove_finalizer" \in Range(cyc[r].writes)
        /\ ~FinalizerStored(r)

\* C3: when CloseIssue and the update that follows both succeed in a cycle
\* on a resource with a deletion timestamp and the finalizer, the finalizer
\* is removed and Reconcile returns no error.
C3_CleanExitAfterDeletion ==
    \A r \in Resources :
        LET c == cyc[r]
        IN  (Ended(c) /\ DeletionCycle(c) /\ "remove_finalizer" \in Range(c.writes))
                => (~FinalizerStored(r) /\ c.ret.returned /\ c.ret.err = NilErr)

\* C4: a cycle on a resource with a deletion timestamp and without the
\* finalizer returns no error, sends no request and writes nothing.
C4_CleanExitWithoutFinalizer ==
    \A r \in Resources :
        LET c == cyc[r]
        IN  (Ended(c) /\ c.read.exists /\ c.read.deleting
                /\ finalizer \notin c.read.finalizers)
                => (/\ c.ret.returned /\ c.ret.err = NilErr
                    /\ c.reqs = <<>> /\ c.writes = <<>> /\ store[r] = c.read)

\* C5: when CloseIssue fails in a cycle on a resource with a deletion
\* timestamp and the finalizer, Reconcile returns an error and the finalizer
\* stays on the stored resource; when no listed issue has the title, the
\* error is "issue not found" and no close request was sent.
C5_CloseFailureKeepsFinalizer ==
    \A r \in Resources :
        LET c == cyc[r]
        IN  (Ended(c) /\ DeletionCycle(c) /\ CloseIssueFailed(c))
                => (/\ c.ret.returned /\ c.ret.err # NilErr
                    /\ FinalizerStored(r)
                    /\ c.writes = <<>>
                    /\ (Listed(c) /\ FirstWithTitle(c.issues, c.read.title) = 0)
                          => (/\ ReqsOfKind(c, "close") = {}
                              /\ c.ret.err.msg = "issue not found"))

C5_Witness ==
    \E r \in Resources :
        /\ Ended(cyc[r]) /\ DeletionCycle(cyc[r])
        /\ Listed(cyc[r]) /\ cyc[r].issues # <<>>
        /\ FirstWithTitle(cyc[r].issues, cyc[r].read.title) = 0
        /\ cyc[r].ret.err.msg = "issue not found"
        /\ FinalizerStored(r)

\* C6, as claimed: a cycle on a resource with a deletion timestamp and the
\* finalizer sends exactly one close request, to the number of the first
\* listed issue with the resource's title, with state "closed", and no
\* create or update request.
C6_ExactlyOneCloseRequest ==
    \A r \in Resources :
        LET c == cyc[r]
            i == FirstWithTitle(c.issues, c.read.title)
        IN  (Ended(c) /\ DeletionCycle(c))
                => (/\ Cardinality(ReqsOfKind(c, "close")) = 1
                    /\ \A j \in ReqsOfKind(c, "close") :
                          /\ i # 0
                          /\ c.reqs[j].req.number = c.issues[i].number
                          /\ c.reqs[j].req.state = closed
                    /\ ReqsOfKind(c, "create") \cup ReqsOfKind(c, "update") = {})

\* C6, amended: such a cycle sends no create or update request and at most
\* one close request; it sends one exactly when the listing succeeded and a
\* listed issue has the resource's title, and then to the number of the
\* first such issue, with state "closed".
C6_OneCloseRequestWhenMatched ==
    \A r \in Resources :
        LET c == cyc[r]
            i == FirstWithTitle(c.issues, c.read.title)
        IN  (Ended(c) /\ DeletionCycle(c))
                => (/\ Cardinality(ReqsOfKind(c, "close")) =
                          (IF Listed(c) /\ i # 0 THEN 1 ELSE 0)
                    /\ \A j \in ReqsOfKind(c, "close") :
                          /\ c.reqs[j].req.number = c.issues[i].number
                          /\ c.reqs[j].req.state = closed
                          /\ c.reqs[j].req.title = c.read.title
                    /\ ReqsOfKind(c, "create") \cup ReqsOfKind(c, "update") = {})

\* A close request went out in a tracker where a later issue has the title too.
C6_Witness ==
    \E r \in Resources :
        LET c == cyc[r]
            i == FirstWithTitle(c.issues, c.read.title)
        IN  /\ Ended(c) /\ DeletionCycle(c)
            /\ ReqsOfKind(c, "close") # {}
            /\ \E k \in DOMAIN c.issues : k > i /\ c.issues[k].title = c.read.title

\* C7: creation.  When the listing of a cycle on a resource without deletion
\* timestamp holds no issue with the resource's title, the cycle sends
\* exactly one create request with title = spec.title, body =
\* spec.description and state "open", sends no update request, and when it
\* returns no error the stored status has OpenIssue = True.
C7_Creation ==
    \A r \in Resources :
        LET c == cyc[r]
        IN  (Ended(c) /\ SyncCycle(c) /\ Listed(c)
                /\ FirstWithTitle(c.issues, c.read.title) = 0)
                => (/\ Cardinality(ReqsOfKind(c, "create")) = 1
                    /\ \A j \in ReqsOfKind(c, "create") :
                          /\ c.reqs[j].req.title = c.read.title
                          /\ c.reqs[j].req.body = c.read.description
                          /\ c.reqs[j].req.state = open
                    /\ ReqsOfKind(c, "update") = {}
                    /\ (c.ret.returned /\ c.ret.err = NilErr)
                          => StoredStatus(r, openIssue) = ConditionTrue)

C7_Witness ==
    \E r \in Resources :
        LET c == cyc[r]
        IN  /\ Ended(c) /\ SyncCycle(c) /\ Listed(c)
            /\ c.issues # <<>>
            /\ FirstWithTitle(c.issues, c.read.title) = 0
            /\ \E j \in ReqsOfKind(c, "create") : c.reqs[j].answer = "ok"
            /\ c.ret.err = NilErr
            /\ StoredStatus(r, openIssue) = ConditionTrue
            /\ FirstWithTitle(remote, c.read.title) # 0

\* C8: update on drift.  When the first listed issue with the resource's
\* title has a body that differs from spec.description, the cycle sends
\* exactly one update request, to that issue's number, with body =
\* spec.description and title = spec.title, and no create request.
C8_UpdateOnDrift ==
    \A r \in Resources :
        LET c == cyc[r]
            i == FirstWithTitle(c.issues, c.read.title)
        IN  (Ended(c) /\ SyncCycle(c) /\ Listed(c) /\ i # 0
                /\ c.issues[i].body # c.read.description)
                => (/\ Cardinality(ReqsOfKind(c, "update")) = 1
                    /\ \A j \in ReqsOfKind(c, "update") :
                          /\ c.reqs[j].req.number = c.issues[i].number
                          /\ c.reqs[j].req.body = c.read.description
                          /\ c.reqs[j].req.title = c.read.title
                    /\ ReqsOfKind(c, "create") = {})

C8_Witness ==
    \E r \in Resources :
        LET c == cyc[r]
            i == FirstWithTitle(c.issues, c.read.title)
        IN  /\ Ended(c) /\ SyncCycle(c) /\ Listed(c) /\ i # 0
            /\ c.issues[i].body # c.read.description
            /\ \E j \in ReqsOfKind(c, "update") : c.reqs[j].answer = "ok"
            /\ remote[FirstWithTitle(remote, c.read.title)].body = c.read.description

\* C9: no-op on match.  When the first listed issue with the resource's title
\* has a body equal to spec.description, the cycle sends neither a create
\* nor an update request, whether that issue is open or closed.
C9_NoOpOnMatch ==
    \A r \in Resources :
        LET c == cyc[r]
            i == FirstWithTitle(c.issues, c.read.title)
        IN  (Ended(c) /\ SyncCycle(c) /\ Listed(c) /\ i # 0
                /\ c.issues[i].body = c.read.description)
                => ReqsOfKind(c, "create") \cup ReqsOfKind(c, "update") = {}

C9_Witness ==
    \E r \in Resources :
        LET c == cyc[r]
            i == FirstWithTitle(c.issues, c.read.title)
        IN  /\ Ended(c) /\ SyncCycle(c) /\ Listed(c) /\ i # 0
            /\ c.issues[i].body = c.read.description
            /\ c.issues[i].state = closed
            /\ c.ret.err = NilErr

\* C10: in the no-op branch, a cycle that returns no error has written the
\* status, and the stored IssueHasPR is True exactly when the matched issue
\* carries a pull-request link.
C10_NoOpConditionsFromMatch ==
    \A r \in Resources :
        LET c == cyc[r]
            i == FirstWithTitle(c.issues, c.read.title)
        IN  (Ended(c) /\ SyncCycle(c) /\ Listed(c) /\ i # 0
                /\ c.issues[i].body = c.read.description
                /\ c.ret.returned /\ c.ret.err = NilErr)
                => (/\ "status" \in Range(c.writes)
                    /\ StoredStatus(r, openIssue) = ConditionTrue
                    /\ StoredStatus(r, issueHasPr) =
                          (IF c.issues[i].pr THEN ConditionTrue ELSE ConditionFalse))

\* The last-transition timestamp of the stored condition of a type, 0 when
\* there is none.
StoredLtt(r, type) ==
    LET i == FindConditionFrom(store[r].conditions, type, 1)
    IN  IF i = 0 THEN 0 ELSE store[r].conditions[i].ltt

\* C11: idempotence.  A cycle that follows, with nothing else having moved,
\* a cycle that returned no error with all its requests answered with
\* success sends no create and no update request and leaves the stored
\* conditions (status, reason, message, last-transition time) as it read
\* them, that is as the first cycle wrote them.
C11_Idempotence ==
    \A r \in Resources :
        LET c == cyc[r]
        IN  (Ended(c) /\ SyncCycle(c) /\ c.prevOk)
                => /\ ReqsOfKind(c, "create") = {}
                   /\ ReqsOfKind(c, "update") = {}
                   /\ store[r].conditions = c.read.conditions

\* C12: after a cycle that created or updated the remote issue and returned
\* no error, the stored condition IssueHasPR is True exactly when the issue
\* decoded from the answer to that request carries a pull-request link, and
\* False otherwise.
C12_HasPrFromResult ==
    \A r \in Resources :
        LET c == cyc[r]
        IN  (Ended(c) /\ SyncCycle(c) /\ c.ret.err = NilErr
                /\ (ReqsOfKind(c, "create") \cup ReqsOfKind(c, "update")) # {})
                => /\ c.handled # NilIssue
                   /\ StoredStatus(r, issueHasPr) =
                          (IF c.handled[1].pr THEN ConditionTrue ELSE ConditionFalse)

C12_Witness ==
    \E r \in Resources :
        /\ Ended(cyc[r]) /\ SyncCycle(cyc[r]) /\ cyc[r].ret.err = NilErr
        /\ ReqsOfKind(cyc[r], "update") # {}
        /\ cyc[r].handled # NilIssue /\ cyc[r].handled[1].pr
        /\ StoredStatus(r, issueHasPr) = ConditionTrue

\* C13: for each condition type, a step changes the stored last-transition
\* time only when it changes the stored status of that type (a type not
\* stored has status "" and time 0); so cycles that write the same status
\* leave the time of the first of them.
C13_TransitionTimeOnlyOnChange ==
    [][\A r \in Resources : \A type \in {openIssue, issueHasPr} :
          StoredLtt(r, type)' # StoredLtt(r, type)
              => StoredStatus(r, type)' # StoredStatus(r, type)]_vars

\* A cycle has written again the status that was stored, at a later time of
\* the clock, and the stored time is still that of the earlier write.
C13_Witness ==
    \E r \in Resources :
        LET c == cyc[r]
            i == FindConditionFrom(c.read.conditions, openIssue, 1)
        IN  /\ Ended(c) /\ "status" \in Range(c.writes)
            /\ i # 0
            /\ StoredStatus(r, openIssue) = c.read.conditions[i].status
            /\ StoredLtt(r, openIssue) = c.read.conditions[i].ltt
            /\ StoredLtt(r, openIssue) < now

\* The cycle sent no request and wrote nothing to the resource.
Untouched(c) == c.reqs = <<>> /\ c.writes = <<>>

\* C14: every cycle on an existing resource, whether it returns an error or
\* not, returns a result with a requeue delay.
C14_RequeueAlways ==
    \A r \in Resources :
        LET c == cyc[r]
        IN  (Ended(c) /\ c.read.exists) => c.ret.requeueAfter > 0

\* C16: a cycle on a resource whose spec.repo has no slash ends by returning
\* an error, having sent no request and written nothing.
C16_MalformedRepoReturnsError ==
    \A r \in Resources :
        LET c == cyc[r]
        IN  (c.pc = "done" /\ c.read.exists /\ Len(Split(c.read.repo)) < 2)
                => /\ c.ret.returned /\ c.ret.err # NilErr
                   /\ Untouched(c)

\* C17: a cycle whose r.Get finds no resource of the name returns no error,
\* sends no request and writes nothing.
C17_NotFoundEndsCleanly ==
    \A r \in Resources :
        LET c == cyc[r]
        IN  (c.pc = "done" /\ ~c.read.exists /\ ~store[r].exists
                /\ c.ret.err.site # "Reconcile:69")
                => /\ c.ret.returned /\ c.ret.err = NilErr
                   /\ Untouched(c)

C17_Witness ==
    \E r \in Resources :
        /\ cyc[r].pc = "done" /\ ~cyc[r].read.exists /\ ~store[r].exists
        /\ cyc[r].ret.returned /\ cyc[r].ret.err = NilErr

\* The resource is stored without a deletion timestamp, with a well-formed
\* spec.repo and a status written by a cycle that returned no error, and
\* the body of the first remote issue with its title is not its description.
BodyDrifted(r) ==
    LET i == FirstWithTitle(remote, store[r].title)
    IN  /\ store[r].exists /\ ~store[r].deleting
        /\ Len(Split(store[r].repo)) >= 2
        /\ StoredStatus(r, openIssue) = ConditionTrue
        /\ i # 0 /\ remote[i].body # store[r].description

BodyInSync(r) ==
    LET i == FirstWithTitle(remote, store[r].title)
    IN  store[r].exists /\ i # 0 /\ remote[i].body = store[r].description

\* A cycle of the resource has ended with a call that did not succeed: an
\* error returned, or a request not answered with success.
CycleCallFailed(r) ==
    /\ cyc[r].pc = "done"
    /\ \/ cyc[r].ret.err # NilErr
       \/ \E i \in DOMAIN cyc[r].reqs : cyc[r].reqs[i].answer # "ok"

C18_CredentialError ==
    \A r \in Resources :
        LET c == cyc[r]
        IN  (Ended(c) /\ SyncCycle(c) /\ InitializeGitErr(secret) # NilErr
                /\ c.ret.err.site # "CheckDeletion:179")
                => /\ c.ret.returned /\ c.ret.err = InitializeGitErr(secret)
                   /\ c.reqs = <<>>
                   /\ store[r].conditions = c.read.conditions

\* C19: a cycle in which a create, update or close request was not answered
\* with success (non-success status, failed transport, failed decoding)
\* returns an error, writes no status and does not remove the finalizer.
C19_RemoteErrorIsFatal ==
    \A r \in Resources :
        LET c == cyc[r]
        IN  (c.pc = "done"
                /\ \E i \in DOMAIN c.reqs :
                      /\ c.reqs[i].req.kind \in {"create", "update", "close"}
                      /\ c.reqs[i].answer # "ok")
                => /\ c.ret.returned /\ c.ret.err # NilErr
                   /\ "status" \notin Range(c.writes)
                   /\ "remove_finalizer" \notin Range(c.writes)

\* C20: a cycle whose listing was answered with a non-success status returns
\* an error, sends no create, update or close request and writes no status.
C20_ListStatusIsFatal ==
    \A r \in Resources :
        LET c == cyc[r]
        IN  (c.pc # "idle"
                /\ \E i \in ReqsOfKind(c, "list") : c.reqs[i].answer = "status")
                => /\ c.pc = "done" /\ c.ret.returned
                   /\ c.ret.err = GetRepositoryIssuesErr("status")
                   /\ ReqsOfKind(c, "create") = {} /\ ReqsOfKind(c, "update") = {}
                   /\ ReqsOfKind(c, "close") = {}
                   /\ "status" \notin Range(c.writes)

C20_Witness ==
    \E r \in Resources :
        /\ cyc[r].pc = "done" /\ SyncCycle(cyc[r])
        /\ \E i \in ReqsOfKind(cyc[r], "list") : cyc[r].reqs[i].answer = "status"
        /\ cyc[r].ret.err # NilErr

\* C21: a cycle that read the resource and returned an error leaves the
\* conditions of the stored resource as it read them.
C21_ErrorLeavesStatus ==
    \A r \in Resources :
        LET c == cyc[r]
        IN  (Ended(c) /\ c.ret.err # NilErr /\ c.read.exists /\ store[r].exists)
                => store[r].conditions = c.read.conditions

\* A cycle computed conditions that differ from the stored ones, its status
\* write failed, and the stored conditions are those it read.
C21_Witness ==
    \E r \in Resources :
        LET c == cyc[r]
        IN  /\ Ended(c) /\ c.ret.err # NilErr /\ c.read.exists /\ store[r].exists
            /\ c.read.conditions # <<>>
            /\ c.obj.conditions # c.read.conditions
            /\ store[r].conditions = c.read.conditions

\* C23: FindIssue gives the element of lowest index with exactly the title,
\* and nil exactly when there is none; the update and close requests of a
\* cycle are addressed to the number of that element, and a create request
\* is sent only when there is none.
C23_FirstMatchOnly ==
    \A r \in Resources :
        LET c == cyc[r]
            i == FirstWithTitle(c.issues, c.read.title)
        IN  (c.pc # "idle" /\ Listed(c))
                => /\ c.found = (IF i = 0 THEN NilIssue ELSE <<c.issues[i]>>)
                   /\ FindIssue(c.issues, c.read.title) = c.found
                   /\ \A j \in DOMAIN c.reqs :
                        /\ c.reqs[j].req.kind \in {"update", "close"}
                              => (i # 0 /\ c.reqs[j].req.number = c.issues[i].number)
                        /\ c.reqs[j].req.kind = "create" => i = 0

\* Two listed issues have the title, and the request went to the first.
C23_Witness ==
    \E r \in Resources :
        LET c == cyc[r]
        IN  /\ c.pc = "done" /\ Listed(c)
            /\ \E i, k \in DOMAIN c.issues :
                  /\ i < k
                  /\ c.issues[i].title = c.read.title
                  /\ c.issues[k].title = c.read.title
                  /\ \A m \in 1..(i - 1) : c.issues[m].title # c.read.title
                  /\ \E j \in DOMAIN c.reqs :
                        /\ c.reqs[j].req.kind \in {"update", "close"}
                        /\ c.reqs[j].req.number = c.issues[i].number

\* The cycle sent a request of the kind, or none of create and update when
\* the kind is "none".
TookBranch(c, kind) ==
    IF kind = "none"
    THEN ReqsOfKind(c, "create") = {} /\ ReqsOfKind(c, "update") = {}
    ELSE ReqsOfKind(c, kind) # {}

\* C24: a cycle on a resource without a deletion timestamp that returned no
\* error leaves a stored OpenIssue condition with status True, whichever of
\* create, update and no-op it took.
C24_OpenIssueAlwaysTrue ==
    \A r \in Resources :
        LET c == cyc[r]
        IN  (Ended(c) /\ SyncCycle(c) /\ c.ret.err = NilErr)
                => /\ StoredStatus(r, openIssue) = ConditionTrue
                   /\ \E kind \in {"create", "update", "none"} : TookBranch(c, kind)

\* The no-op branch, on a resource that had no status.
C24_Witness ==
    \E r \in Resources :
        LET c == cyc[r]
        IN  /\ Ended(c) /\ SyncCycle(c) /\ c.ret.err = NilErr
            /\ TookBranch(c, "none") /\ c.read.conditions = <<>>
            /\ StoredStatus(r, openIssue) = ConditionTrue

\* C25: at the end of a cycle that returned no error and had all its
\* requests answered with success, OpenIssue is True in the stored status
\* only if the first remote issue with the resource's title is open.
C25_OpenIssueTellsOpen ==
    \A r \in Resources :
        LET c == cyc[r]
            i == FirstWithTitle(remote, c.read.title)
        IN  (CleanCycle(c) /\ SyncCycle(c)
                /\ StoredStatus(r, openIssue) = ConditionTrue)
                => (i # 0 /\ remote[i].state = open)

\* C26: after a cycle on a resource without a deletion timestamp that
\* returned no error and had all its requests answered with success, the
\* tracker has an issue with spec.title, and the first of them in list
\* order has the body spec.description.
C26_RemoteInSync ==
    \A r \in Resources :
        LET c == cyc[r]
            i == FirstWithTitle(remote, c.read.title)
        IN  (CleanCycle(c) /\ SyncCycle(c))
                => (i # 0 /\ remote[i].body = c.read.description)

\* The cycle created the issue.
C26_Witness ==
    \E r \in Resources :
        LET c == cyc[r]
            i == FirstWithTitle(remote, c.read.title)
        IN  /\ CleanCycle(c) /\ SyncCycle(c)
            /\ TookBranch(c, "create")
            /\ i # 0 /\ remote[i].body = c.read.description

\* A cycle of the resource has ended with a remote request not answered
\* with success or with a failed call of the store.
CycleCallRefused(r) ==
    /\ cyc[r].pc = "done"
    /\ \/ \E i \in DOMAIN cyc[r].reqs : cyc[r].reqs[i].answer # "ok"
       \/ cyc[r].ret.err.site \in
              {"Reconcile:69", "CheckDeletion:170", "CheckDeletion:179", "Reconcile:104"}

\* C27: deletion completes.  A resource with a status written by a cycle
\* that succeeded, whose issue is on the tracker, and that carries a
\* deletion timestamp and the engine's finalizer only, is eventually absent
\* from the store, when no cycle is running, nothing else moves and the
\* dispatcher still runs cycles, unless a remote request or a store call of
\* the deletion cycle fails.
C27_DeletionCompletes ==
    \A r \in Resources :
        (r \in active /\ cyc[r].pc = "idle" /\ budget.env = 0 /\ budget.cycles > 0
            /\ store[r].exists /\ store[r].deleting
            /\ store[r].finalizers = {finalizer}
            /\ Len(Split(store[r].repo)) >= 2
            /\ StoredStatus(r, openIssue) = ConditionTrue
            /\ FirstWithTitle(remote, store[r].title) # 0)
          ~> (~store[r].exists \/ CycleCallRefused(r))

\* The deletion cycle of a resource that had a status has closed the issue
\* and the resource is gone.
C27_Witness ==
    \E r \in Resources :
        LET c == cyc[r]
        IN  /\ c.pc = "done" /\ DeletionCycle(c) /\ budget.env = 0
            /\ c.read.conditions # <<>>
            /\ c.read.finalizers = {finalizer}
            /\ \A i \in DOMAIN c.reqs : c.reqs[i].answer = "ok"
            /\ "remove_finalizer" \in Range(c.writes)
            /\ ~store[r].exists

\* C28: CloseIssue is idempotent.  When the issue a deletion cycle finds is
\* as a CloseIssue that succeeded leaves it (state closed, body the
\* description) and the close request is answered with success, CloseIssue
\* returns no error and the tracker is as the cycle listed it.
C28_CloseIdempotent ==
    \A r \in Resources :
        LET c == cyc[r]
        IN  (DeletionCycle(c) /\ Listed(c) /\ c.found # NilIssue
                /\ c.found[1].state = closed
                /\ c.found[1].body = c.read.description
                /\ \E j \in ReqsOfKind(c, "close") : c.reqs[j].answer = "ok")
                => /\ remote = c.issues
                   /\ c.pc \in {"RemoveFinalizer_update", "done"}
                   /\ c.pc = "done" =>
                         c.ret.err.site \in {"CheckDeletion:170", "CheckDeletion:173"}

\* The retry: the issue was found closed, closed again, and the finalizer
\* removed.
C28_Witness ==
    \E r \in Resources :
        LET c == cyc[r]
        IN  /\ c.pc = "done" /\ DeletionCycle(c) /\ Listed(c)
            /\ c.found # NilIssue /\ c.found[1].state = closed
            /\ c.found[1].body = c.read.description
            /\ \E j \in ReqsOfKind(c, "close") : c.reqs[j].answer = "ok"
            /\ "remove_finalizer" \in Range(c.writes)
            /\ remote = c.issues

\* What the environment answered to an ended cycle: the outcome of r.Get,
\* the answers to its requests, and the store write that failed.
ChoicesOf(c) ==
    [getOk    |-> c.ret.err.site # "Reconcile:69",
     answers  |-> [i \in DOMAIN c.reqs |-> c.reqs[i].answer],
     failSite |-> IF c.ret.err.site \in
                        {"CheckDeletion:170", "CheckDeletion:179", "Reconcile:104"}
                  THEN c.ret.err.site ELSE ""]

\* The stored object and the tracker as they were when the ended cycle of
\* the resource began (no one else moves during a cycle).
StoredBefore(r) == IF cyc[r].read.exists THEN cyc[r].read ELSE store[r]

RemoteBefore(r) == IF Listed(cyc[r]) THEN cyc[r].issues ELSE remote

\* C29: the engine is stateless across invocations.  Whatever cycles and
\* moves of the environment came before it, the requests, the stored
\* resource, the tracker and the return value of an ended cycle are those
\* that Reconcile, as a function, gives for the stored resource and tracker
\* the cycle started from, the answers it got and the clock.
C29_Stateless ==
    \A r \in Resources :
        LET c == cyc[r]
            o == ReconcileFn(StoredBefore(r), RemoteBefore(r), ChoicesOf(c), now)
        IN  c.pc = "done"
                => /\ c.reqs = o.reqs
                   /\ c.ret = o.ret
                   /\ store[r] = o.stored
                   /\ remote = o.remote

\* A cycle that follows a cycle that ended without error has sent a request
\* and written the status.
C29_Witness ==
    \E r \in Resources :
        LET c == cyc[r]
        IN  /\ c.pc = "done" /\ c.prevOk /\ SyncCycle(c)
            /\ c.reqs # <<>> /\ "status" \in Range(c.writes)
            /\ c.ret = RetErr(NilErr)

\* The spec fields of a stored resource.
SpecFields(o) == <<o.repo, o.title, o.description>>

\* The store writes of a cycle: the sites of their failure.
WriteSites == {"CheckDeletion:170", "CheckDeletion:179", "Reconcile:104"}

\* C22: a step of a reconcile cycle (a step that is not the user's edit)
\* leaves repo, title and description of every stored resource as they
\* are, also when the user has edited the spec after the cycle read the
\* resource; the resource may leave the store when its last finalizer goes.
C22_SpecFieldsFrame ==
    [][budget'.env = budget.env
          => \A r \in Resources :
                (store[r].exists /\ store'[r].exists)
                    => SpecFields(store'[r]) = SpecFields(store[r])]_vars

\* A cycle has come to a store write after a user changed the spec it had
\* read, and has ended.
C22_Witness ==
    \E r \in Resources :
        LET c == cyc[r]
        IN  /\ c.pc = "done" /\ c.stale
            /\ c.ret.err.site \in WriteSites
            /\ store[r].exists
            /\ SpecFields(store[r]) # SpecFields(c.read)

\* The store and the tracker after the cycle of resource first and then
\* the cycle of resource second, one after the other from the remembered
\* initial state, each with the answers its cycle got and the clock reading
\* t gives it.
SequentialRun(first, second, t) ==
    LET o1 == ReconcileFn(origin.store[first], origin.remote,
                          ChoicesOf(cyc[first]), t[first])
        o2 == ReconcileFn(origin.store[second], o1.remote,
                          ChoicesOf(cyc[second]), t[second])
    IN  [store  |-> [r \in Resources |-> IF r = first THEN o1.stored ELSE o2.stored],
         remote |-> o2.remote]

\* C30: the cycles of two resources with different (repo, title) pairs do
\* not interfere.  However their steps interleave, once both have ended the
\* store and the tracker are those of the two cycles run one after the
\* other, in one of the two orders, with the same answers.
C30_NoInterference ==
    ( /\ \A r \in Resources : cyc[r].pc = "done"
      /\ <<origin.store["r1"].repo, origin.store["r1"].title>>
            # <<origin.store["r2"].repo, origin.store["r2"].title>> )
        => \E first \in Resources, t \in [Resources -> 1..now] :
              \E second \in Resources \ {first} :
                  LET run == SequentialRun(first, second, t)
                  IN  run.store = store /\ run.remote = remote

\* Both cycles listed the empty tracker before either created its issue,
\* both created it and wrote their status.
C30_Witness ==
    /\ \A r \in Resources :
          /\ cyc[r].pc = "done" /\ cyc[r].ret = RetErr(NilErr)
          /\ Listed(cyc[r]) /\ cyc[r].issues = <<>>
          /\ \E i \in ReqsOfKind(cyc[r], "create") : cyc[r].reqs[i].answer = "ok"
          /\ "status" \in Range(cyc[r].writes)
    /\ Len(remote) = 2

\* C33: in a cycle on a resource without a deletion timestamp the finalizer
\* is stored before the first request is sent: a cycle that read the
\* resource without the finalizer and has sent a request has written the
\* finalizer first, a cycle whose finalizer write failed has sent no
\* request, and whenever a cycle has sent a request the stored resource
\* carries the finalizer.
C33_FinalizerBeforeRequests ==
    \A r \in Resources :
        LET c == cyc[r]
        IN  SyncCycle(c)
                => /\ (c.reqs # <<>> /\ finalizer \notin c.read.finalizers)
                        => (c.writes # <<>> /\ c.writes[1] = "add_finalizer")
                   /\ c.ret.err.site = "CheckDeletion:179" => c.reqs = <<>>
                   /\ c.reqs # <<>> => FinalizerStored(r)

\* A cycle that read the resource without the finalizer has stored it and
\* then created the issue.
C33_Witness ==
    \E r \in Resources :
        LET c == cyc[r]
        IN  /\ SyncCycle(c) /\ finalizer \notin c.read.finalizers
            /\ c.writes # <<>> /\ c.writes[1] = "add_finalizer"
            /\ ReqsOfKind(c, "create") # {}
            /\ FinalizerStored(r)

\* C34: a cycle on a resource with a deletion timestamp sends no create and
\* no update request and does not write the status, with or without the
\* finalizer and whatever CloseIssue returns.
C34_DeletionCycleOnlyCloses ==
    \A r \in Resources :
        LET c == cyc[r]
        IN  (c.read.exists /\ c.read.deleting)
                => /\ ReqsOfKind(c, "create") = {}
                   /\ ReqsOfKind(c, "update") = {}
                   /\ "status" \notin Range(c.writes)
                   /\ c.pc \notin {"GetRepositoryIssues", "CreateIssue",
                                   "UpdateIssue", "StatusUpdate"}

\* A deletion cycle whose CloseIssue failed has ended, on a tracker that
\* has no issue with the title.
C34_Witness ==
    \E r \in Resources :
        LET c == cyc[r]
        IN  /\ c.pc = "done" /\ DeletionCycle(c) /\ Listed(c)
            /\ c.found = NilIssue
            /\ c.ret.err.site = "CloseIssue:293"
            /\ c.writes = <<>>

\* C35: Reconcile never crashes.  Every cycle that has ended has returned
\* a result or an error value; none has ended by a runtime panic.
C35_NeverPanics ==
    \A r \in Resources :
        cyc[r].pc = "done" => (cyc[r].ret.returned /\ ~cyc[r].ret.panic)

\* C36: no duplicate creation by one resource.  No step, of a cycle that
\* failed or succeeded or of anyone else, takes the number of issues with
\* a title above one, or above what it was: a tracker that has at most one
\* issue with the title keeps at most one.
C36_NoDuplicateCreation ==
    [][\A t \in Titles :
          CountTitle(remote', t) <= 1 \/ CountTitle(remote', t) <= CountTitle(remote, t)]_vars

\* After a cycle that ended with an error and with no move of anyone else,
\* the next cycle of the resource has created the issue, the only one with
\* its title.
C36_Witness ==
    \E r \in Resources :
        LET c == cyc[r]
        IN  /\ c.pc = "done" /\ SyncCycle(c)
            /\ budget.env = MaxEnv /\ budget.cycles <= MaxCycles - 2
            /\ ~c.prevOk
            /\ \E i \in ReqsOfKind(c, "create") : c.reqs[i].answer = "ok"
            /\ CountTitle(remote, c.read.title) = 1

\* C37: no duplicate creation across resources.  When the cycles of two
\* resources with the same repo and the same title, run in parallel on a
\* tracker that had no issue with the title, have both ended, the tracker
\* has at most one issue with the title.
C37_NoDuplicateAcrossResources ==
    ( /\ \A r \in Resources : cyc[r].pc = "done"
      /\ SpecFields(origin.store["r1"])[1] = SpecFields(origin.store["r2"])[1]
      /\ origin.store["r1"].title = origin.store["r2"].title
      /\ CountTitle(origin.remote, origin.store["r1"].title) = 0 )
        => CountTitle(remote, origin.store["r1"].title) <= 1

\* The issues of the tracker that the engine created: those that were not
\* there initially (no one else creates issues).
CreatedByEngine(issues) ==
    { i \in DOMAIN issues : issues[i].number > MaxNumber(origin.remote) }

\* C38: no orphaned issue.  When the resource has been removed from the
\* store by a deletion cycle all of whose requests were answered with
\* success, every issue the engine created for it is closed.
C38_NoOrphanedIssue ==
    \A r \in active :
        LET c == cyc[r]
        IN  ( /\ origin.store[r].exists /\ ~store[r].exists
              /\ c.pc = "done" /\ "remove_finalizer" \in Range(c.writes)
              /\ \A i \in DOMAIN c.reqs : c.reqs[i].answer = "ok" )
                => \A i \in CreatedByEngine(remote) : remote[i].state = closed

\* C39: deletion is never blocked forever.  A resource with a deletion
\* timestamp and the engine's finalizer only is eventually absent from the
\* store, whether or not the tracker has an issue with its title, when no
\* cycle is running, nothing else moves and the dispatcher still runs
\* cycles, unless a remote request or a store call of a cycle fails.
C39_DeletionNeverBlocked ==
    \A r \in Resources :
        (r \in active /\ cyc[r].pc = "idle" /\ budget.env = 0 /\ budget.cycles > 0
            /\ store[r].exists /\ store[r].deleting
            /\ store[r].finalizers = {finalizer}
            /\ Len(Split(store[r].repo)) >= 2)
          ~> (~store[r].exists \/ CycleCallRefused(r))

\* C31: every response body a client operation obtained is closed when the
\* operation has returned, on the success path and on every error path,
\* and no body is read after it was closed.
C31_BodiesClosedAtReturn ==
    \A i \in DOMAIN client.bodies :
        /\ ~client.bodies[i].readClosed
        /\ (client.pc = "done" /\ client.outcome # "panic")
              => client.bodies[i].state = "closed"

\* C32: for every create, update or delete request that reached handle,
\* the log file has one more line, holding the requesting user and the
\* operation, and the response allows the request, also when the log file
\* could not be opened or written.
C32_LogsAndAlwaysAllows ==
    (webhook.request # <<>> /\ webhook.request[1].decoded)
        => /\ webhook.response[1].allowed
           /\ webhook.log = Append(webhook.before,
                                   Marshal(webhook.request[1].user,
                                           webhook.request[1].operation))
====
